---- MODULE Spec2Model ----
(***************************************************************************)
(* A model of the invoice pipeline: the tolerant JSON recovery of          *)
(* extractor.py (extract_json), the batch loop of run_extractor, and the   *)
(* comparison loop and report of evaluator.py.                             *)
(*                                                                         *)
(* A model response is a sequence of tokens.  A token is one lexical item  *)
(* of the text: a brace, a comma, a whole "key": scalar member, a key      *)
(* followed by its colon, a bare string literal, a prose word, a code      *)
(* fence, the word json, or a run of whitespace.                           *)
(***************************************************************************)
EXTENDS Integers, Sequences, FiniteSets, TLC

\* ------------------------------------------------------------------ bounds
MaxBody == 5    \* tokens of the body of a response handed to extract_json
MaxFiles == 3   \* files sorted_descending in the vendor folders of one extraction run
MaxGT == 3      \* entries sorted_descending in the ground_truth folder of one comparison

\* ------------------------------------------------------------------ tokens
LB == "{"
RB == "}"
COMMA == ","
FENCE == "<fence>"   \* the three backquotes of a markdown code fence
JSONTAG == "json"
WS == " "
PROSE == "p"
STR == "<string>"      \* a bare JSON string literal
NKEY == "invoice:"      \* the key invoice and its colon; the value follows

\* One mismatch entry of a verdict.  Absent is a key the entry does not hold.
Absent == "<absent>"
E1 == [isobj |-> TRUE, field |-> "total", expected |-> "$100.00", actual |-> "100.00"]
E2 == [isobj |-> TRUE, field |-> "due_date", expected |-> "2024-01-01", actual |-> Absent]
ES == [isobj |-> FALSE, field |-> Absent, expected |-> Absent, actual |-> Absent]

\* The members that are one token: "key": value with a scalar or list value.
MemberKey == [ a  |-> "client_name",
               sP |-> "overall_status", sM |-> "overall_status",
               sX |-> "overall_status",
               m0 |-> "mismatches", m1 |-> "mismatches",
               m2 |-> "mismatches", mB |-> "mismatches" ]
MemberValue == [ a  |-> "x",
                 sP |-> "Pass", sM |-> "Mismatch", sX |-> "Fail",
                 m0 |-> << >>, m1 |-> <<E1>>,
                 m2 |-> <<E1, E2>>, mB |-> <<E1, ES>> ]
MemberTokens == DOMAIN MemberKey

\* ------------------------------------------------------- Python's json.loads
EmptyDict == << >>
DictSet(d, k, v) == [x \in (DOMAIN d) \cup {k} |-> IF x = k THEN v ELSE d[x]]
ParseFail == [ok |-> FALSE, val |-> EmptyDict, next |-> 0]
At(s, i) == IF i \in 1..Len(s) THEN s[i] ELSE "<eof>"

RECURSIVE ParseMembers(_, _, _)
\* The value at position i of s: only an object can hold further values.
ParseObject(s, i) ==
  IF At(s, i) # LB THEN ParseFail
  ELSE IF At(s, i + 1) = RB
       THEN [ok |-> TRUE, val |-> EmptyDict, next |-> i + 2]
       ELSE ParseMembers(s, i + 1, EmptyDict)

\* The members of an object from position i on, up to its closing brace; a
\* repeated key keeps its last value.
ParseMembers(s, i, acc) ==
  LET one == IF At(s, i) \in MemberTokens
               THEN [ok |-> TRUE,
                     val |-> DictSet(acc, MemberKey[At(s, i)], MemberValue[At(s, i)]),
                     next |-> i + 1]
             ELSE IF At(s, i) = NKEY
               THEN LET r == ParseObject(s, i + 1)
                    IN IF r.ok
                         THEN [ok |-> TRUE, val |-> DictSet(acc, "invoice", r.val),
                               next |-> r.next]
                         ELSE ParseFail
             ELSE ParseFail
  IN IF ~one.ok THEN ParseFail
     ELSE IF At(s, one.next) = COMMA THEN ParseMembers(s, one.next + 1, one.val)
     ELSE IF At(s, one.next) = RB
            THEN [ok |-> TRUE, val |-> one.val, next |-> one.next + 1]
     ELSE ParseFail

RECURSIVE SkipWs(_)
SkipWs(s) ==
  IF s = << >> THEN << >>
  ELSE IF Head(s) = WS THEN SkipWs(Tail(s)) ELSE <<Head(s)>> \o SkipWs(Tail(s))

JSONDecodeError == [kind |-> "JSONDecodeError", val |-> EmptyDict]
\* json.loads(text): whitespace between tokens is skipped, one value is read,
\* and anything left after it is "Extra data".
json_loads(text) ==
  LET s == SkipWs(text)
  IN IF s = <<STR>> THEN [kind |-> "str", val |-> EmptyDict]
     ELSE LET r == ParseObject(s, 1)
          IN IF r.ok /\ r.next = Len(s) + 1
               THEN [kind |-> "dict", val |-> r.val]
               ELSE JSONDecodeError

\* ------------------------------------------------- extractor.py extract_json
\* re.search(r'\{.*\}', text, re.DOTALL): the leftmost position holding a '{'
\* that has a '}' after it, extended greedily to the last '}' of the text.
SearchStarts(text) ==
  {i \in 1..Len(text) : text[i] = LB /\ \E j \in (i + 1)..Len(text) : text[j] = RB}
Min(S) == CHOOSE m \in S : \A x \in S : m <= x
Max(S) == CHOOSE m \in S : \A x \in S : m >= x
NoMatch == << >>
re_search_nongreedy(text) ==
  IF SearchStarts(text) = {} THEN NoMatch
  ELSE LET i == Min(SearchStarts(text))
           j == Min({k \in (i + 1)..Len(text) : text[k] = RB})
       IN SubSeq(text, i, j)
re_search(text) ==
  IF SearchStarts(text) = {} THEN NoMatch
  ELSE LET i == Min(SearchStarts(text))
           j == Max({k \in (i + 1)..Len(text) : text[k] = RB})
       IN SubSeq(text, i, j)

None == [kind |-> "None", val |-> EmptyDict]
MsgDecode == "Still failed to decode JSON after regex cleanup."
MsgNoBlock == "No valid JSON block found in text."
\* extract_json(text): the value returned and the line printed.
extract_json(text) ==
  LET match == re_search(text)
  IN IF match # NoMatch
       THEN LET r == json_loads(match)
            IN IF r.kind = "JSONDecodeError"
                 THEN [ret |-> None, printed |-> <<MsgDecode>>, group |-> match]
                 ELSE [ret |-> r, printed |-> << >>, group |-> match]
       ELSE [ret |-> None, printed |-> <<MsgNoBlock>>, group |-> NoMatch]

\* ------------------------------------------------------------------- state
VARIABLES
  \* one call of extract_json on the text lead \o body \o trail
  lead, body, trail, jpc, jret,
  \* run_extractor: the entries sorted_descending (in listing order), the loop position,
  \* the three collections, the files handed to extract_invoice, the value
  \* extract_invoice returned for the entry just processed
  listing, xi, xpc, sorted_invoices, gemini_output, error_invoices, handed,
  json_data,
  \* evaluator.py: the entries of ground_truth/, the names present in
  \* gemini_output/, the sorted listing and the loop position, the rows
  \* gathered, the invoices the model was called for, the file just
  \* processed with the model's answer, and the exported report
  ground_truth, out_present, order, ei, epc, results, model_calls, last, report

jvars == <<lead, body, trail, jpc, jret>>
xvars == <<listing, xi, xpc, sorted_invoices, gemini_output, error_invoices,
           handed, json_data>>
evars == <<ground_truth, out_present, order, ei, epc, results, model_calls,
           last, report>>
vars == <<jvars, xvars, evars>>

\* What may stand around the JSON of a response: nothing, a code fence with
\* or without the json tag, prose, whitespace.
Leads == { << >>, <<FENCE, JSONTAG, WS>>, <<FENCE, WS>>, <<PROSE, WS>>, <<WS>> }
Trails == { << >>, <<WS, FENCE>>, <<WS, PROSE>> }
BodyTokens == {LB, RB, COMMA, "a", NKEY}
Bodies == UNION {[1..n -> BodyTokens] : n \in 0..MaxBody}
NotCalled == [ret |-> None, printed |-> << >>, group |-> NoMatch]

JsonIdle ==
  /\ lead = << >> /\ body = << >> /\ trail = << >>
  /\ jpc = "idle" /\ jret = NotCalled
ExtractorIdle ==
  /\ listing = << >> /\ xi = 1 /\ xpc = "idle"
  /\ sorted_invoices = {} /\ gemini_output = EmptyDict /\ error_invoices = {}
  /\ handed = {} /\ json_data = None

NoFile == [base |-> 0, how |-> "none", text |-> << >>]
EvaluatorIdle ==
  /\ ground_truth = {} /\ out_present = {} /\ order = << >> /\ ei = 1
  /\ epc = "idle" /\ results = << >> /\ model_calls = {} /\ last = NoFile
  /\ report = << >>

InitJson ==
  /\ lead \in Leads /\ body \in Bodies /\ trail \in Trails
  /\ jpc = "call" /\ jret = NotCalled
  /\ ExtractorIdle /\ EvaluatorIdle

\* extract_json(response.text), extractor.py line 110.
CallExtractJson ==
  /\ jpc = "call"
  /\ jret' = extract_json(lead \o body \o trail)
  /\ jpc' = "returned"
  /\ UNCHANGED <<lead, body, trail, xvars, evars>>

NextJson == CallExtractJson
SpecJson == InitJson /\ [][NextJson]_vars

\* ------------------------------------------------ extractor.py run_extractor
\* An entry of sorted_invoices/<seller>/: the folder and the file name in two
\* parts.  NotAFolder is an entry of sorted_invoices that is no directory.
Sellers == {"acme", "globex"}
Bases == {"inv1", "inv2"}
Exts == {".pdf", ".xlsx"}
Files == [seller : Sellers, base : Bases, ext : Exts]
NotAFolder == [seller |-> "notes.txt", base |-> "", ext |-> ""]
FileName(f) == [base |-> f.base, ext |-> f.ext]
\* os.path.splitext(file)[0] + ".json"
JsonName(f) == [base |-> f.base, ext |-> ".json"]

\* The nested loops visit the folders one after the other: the entries of one
\* folder are consecutive, and no path is sorted_descending twice.
Grouped(q) ==
  /\ \A i, j \in 1..Len(q) : i # j => q[i] # q[j]
  /\ \A i, j, k \in 1..Len(q) :
        (i < j /\ j < k /\ q[i].seller = q[k].seller) => q[j].seller = q[i].seller
Listings ==
  {q \in UNION {[1..n -> Files \cup {NotAFolder}] : n \in 0..MaxFiles} : Grouped(q)}

\* What the model may answer for one file.
ValidNested == <<FENCE, JSONTAG, WS, LB, NKEY, LB, "a", RB, RB, WS, FENCE>>
ValidAfterProse == <<PROSE, WS, LB, "a", RB>>
EmptyObject == <<LB, RB>>
NoBraces == <<PROSE>>
Malformed == <<LB, "a", COMMA, RB>>
ExtractResponses == {ValidNested, ValidAfterProse, EmptyObject, NoBraces, Malformed}
\* What the world does while one file is processed: whether the file can be
\* read (or converted), what the model call does, whether the final write or
\* move succeeds.
Raises == <<"<raises>">>
Outcomes == [read : {"ok", "fails"}, model : ExtractResponses \cup {Raises},
             fs : {"ok", "fails"}]

\* convert_xlsx_to_csv: the CSV text, or None when reading the sheet raises.
convert_xlsx_to_csv(o) == IF o.read = "ok" THEN "csv" ELSE "None"

\* extract_invoice(file_path): what it returns, or that it raised.
extract_invoice(f, o) ==
  IF f.ext = ".xlsx" /\ convert_xlsx_to_csv(o) = "None"
    THEN [raised |-> FALSE, ret |-> None]
  ELSE IF f.ext # ".xlsx" /\ o.read = "fails"
    THEN [raised |-> TRUE, ret |-> None]          \* open() is outside the try
  ELSE IF o.model = Raises
    THEN [raised |-> FALSE, ret |-> None]         \* except Exception
  ELSE [raised |-> FALSE, ret |-> extract_json(o.model).ret]

\* Python's truth value of what extract_invoice returned.
Truthy(v) == v.kind # "None" /\ v.val # EmptyDict

InitExtractor ==
  /\ listing \in Listings
  /\ xi = 1 /\ xpc = "loop"
  /\ sorted_invoices = {listing[i] : i \in 1..Len(listing)} \ {NotAFolder}
  /\ gemini_output = EmptyDict /\ error_invoices = {}
  /\ handed = {} /\ json_data = None
  /\ JsonIdle /\ EvaluatorIdle

\* if not os.path.isdir(folder_path): continue
SkipNotAFolder ==
  /\ xpc = "loop" /\ xi <= Len(listing) /\ listing[xi] = NotAFolder
  /\ xi' = xi + 1
  /\ UNCHANGED <<listing, xpc, sorted_invoices, gemini_output, error_invoices,
                 handed, json_data, jvars, evars>>

\* One pass of the inner loop body, lines 128-141.
ProcessFile ==
  /\ xpc = "loop" /\ xi <= Len(listing) /\ listing[xi] # NotAFolder
  /\ \E o \in Outcomes :
       LET f == listing[xi]
           r == extract_invoice(f, o)
       IN /\ handed' = handed \cup {f}
          /\ IF r.raised
               THEN /\ xpc' = "raised"
                    /\ UNCHANGED <<xi, sorted_invoices, gemini_output,
                                   error_invoices, json_data>>
             ELSE IF o.fs = "fails"
               THEN /\ xpc' = "raised" /\ json_data' = r.ret
                    /\ UNCHANGED <<xi, sorted_invoices, gemini_output,
                                   error_invoices>>
             ELSE IF Truthy(r.ret)
               THEN /\ gemini_output' = DictSet(gemini_output, JsonName(f), r.ret.val)
                    /\ json_data' = r.ret /\ xi' = xi + 1
                    /\ UNCHANGED <<xpc, sorted_invoices, error_invoices>>
             ELSE /\ sorted_invoices' = sorted_invoices \ {f}
                  /\ error_invoices' = error_invoices \cup {FileName(f)}
                  /\ json_data' = r.ret /\ xi' = xi + 1
                  /\ UNCHANGED <<xpc, gemini_output>>
  /\ UNCHANGED <<listing, jvars, evars>>

\* Both loops are exhausted: run_extractor returns.
ReturnExtractor ==
  /\ xpc = "loop" /\ xi > Len(listing)
  /\ xpc' = "done"
  /\ UNCHANGED <<listing, xi, sorted_invoices, gemini_output, error_invoices,
                 handed, json_data, jvars, evars>>

NextExtractor == SkipNotAFolder \/ ProcessFile \/ ReturnExtractor
SpecExtractor == InitExtractor /\ [][NextExtractor]_vars

\* ------------------------------------------------ evaluator.py, lines 75-137
\* str.strip(), str.removeprefix("```json"), str.removesuffix("```")
RECURSIVE lstrip(_)
lstrip(t) == IF t # << >> /\ Head(t) = WS THEN lstrip(Tail(t)) ELSE t
RECURSIVE rstrip(_)
rstrip(t) ==
  IF t # << >> /\ t[Len(t)] = WS THEN rstrip(SubSeq(t, 1, Len(t) - 1)) ELSE t
strip(t) == rstrip(lstrip(t))
removeprefix(t) ==
  IF Len(t) >= 2 /\ t[1] = FENCE /\ t[2] = JSONTAG THEN SubSeq(t, 3, Len(t)) ELSE t
removesuffix(t) ==
  IF t # << >> /\ t[Len(t)] = FENCE THEN SubSeq(t, 1, Len(t) - 1) ELSE t
\* line 102
cleaned_text(res_text) == strip(removesuffix(removeprefix(strip(res_text))))

\* dict.get(key, default)
Get(d, k, default) == IF k \in DOMAIN d THEN d[k] ELSE default
EntryGet(e, k) == IF e[k] = Absent THEN "N/A" ELSE e[k]

\* One row of results; Expected is kept as a sequence of pieces of text.
Row(base, status, fld, expected, actual) ==
  [invoice |-> base, status |-> status, field |-> fld, expected |-> expected,
   actual |-> actual]
PassRow(base) == Row(base, "Pass", "-", <<"-">>, "-")
MissingRow(base) == Row(base, "Missing Output", "-", <<"-">>, "-")
NoDetail == "Gemini reported a mismatch but did not provide details"
NoDetailAsPass(base) == Row(base, "Pass", "-", <<"-">>, "-")
NoDetailRow(base) == Row(base, "Mismatch", "Unknown", <<NoDetail>>, "-")
InvalidStatusRow(base, status) ==
  Row(base, "Error", "Invalid Status", <<"Gemini returned status: ", status>>, "-")
InvalidJsonRow(base, res_text) ==
  Row(base, "Error", "Invalid JSON Verdict", res_text, "-")
ApiErrorRow(base) == Row(base, "Error", "API or other Error", <<"str(e)">>, "-")

\* for mismatch in mismatches: results.append([...]), lines 117-124.  An
\* entry that is no object has no .get: AttributeError, caught at line 131,
\* after the rows of the entries before it were appended.
FirstMismatchRow(base, mismatches) ==
  IF mismatches = << >> \/ ~Head(mismatches).isobj THEN <<ApiErrorRow(base)>>
  ELSE <<Row(base, "Mismatch", EntryGet(Head(mismatches), "field"),
             <<EntryGet(Head(mismatches), "expected")>>,
             EntryGet(Head(mismatches), "actual"))>>
RECURSIVE MismatchRows(_, _)
MismatchRows(base, mismatches) ==
  IF mismatches = << >> THEN << >>
  ELSE LET mismatch == Head(mismatches)
       IN IF ~mismatch.isobj THEN <<ApiErrorRow(base)>>
          ELSE <<Row(base, "Mismatch", EntryGet(mismatch, "field"),
                     <<EntryGet(mismatch, "expected")>>,
                     EntryGet(mismatch, "actual"))>>
               \o MismatchRows(base, Tail(mismatches))

\* Lines 102-133: the rows appended for one answer of the model.
VerdictRows(base, res_text) ==
  LET eval_data == json_loads(cleaned_text(res_text))
  IN IF eval_data.kind = "JSONDecodeError" THEN <<InvalidJsonRow(base, res_text)>>
     ELSE IF eval_data.kind # "dict" THEN <<ApiErrorRow(base)>>
     ELSE LET status == Get(eval_data.val, "overall_status", "Parse Error")
          IN IF status = "Pass" THEN <<PassRow(base)>>
             ELSE IF status = "Mismatch"
               THEN LET mismatches == Get(eval_data.val, "mismatches", << >>)
                    IN IF mismatches = << >> THEN <<NoDetailRow(base)>>
                       ELSE MismatchRows(base, mismatches)
             ELSE <<InvalidStatusRow(base, status)>>

\* sorted(os.listdir("ground_truth")): names are ordered by their number.
RECURSIVE sorted_descending(_)
sorted_descending(S) ==
  IF S = {} THEN << >>
  ELSE LET m == CHOOSE x \in S : \A y \in S : x.base >= y.base
       IN <<m>> \o sorted_descending(S \ {m})
RECURSIVE sorted(_)
sorted(S) ==
  IF S = {} THEN << >>
  ELSE LET m == CHOOSE x \in S : \A y \in S : x.base <= y.base
       IN <<m>> \o sorted(S \ {m})

\* The answers the model may give to a comparison prompt.
Fenced(t) == <<FENCE, JSONTAG, WS>> \o t \o <<WS, FENCE>>
VPass == <<LB, "sP", COMMA, "m0", RB>>
VPassFenced == Fenced(VPass)
VPassAfterProse == <<PROSE, WS>> \o VPass
VPassBareFence == <<FENCE, WS>> \o VPass \o <<WS, FENCE>>
VPassWithEntries == <<LB, "sP", COMMA, "m1", RB>>
VMismatch1 == Fenced(<<LB, "sM", COMMA, "m1", RB>>)
VMismatch2 == <<WS, LB, "sM", COMMA, "m2", RB, WS>>
VMismatchEmpty == <<LB, "sM", COMMA, "m0", RB>>
VMismatchNoList == <<LB, "sM", RB>>
VMismatchBadEntry == <<LB, "sM", COMMA, "mB", RB>>
VOtherStatus == <<LB, "sX", COMMA, "m0", RB>>
VNoStatus == <<LB, "m1", RB>>
VNotJson == <<PROSE>>
VString == <<STR>>
VerdictResponses ==
  {VPass, VPassFenced, VPassAfterProse, VPassBareFence, VPassWithEntries,
   VMismatch1, VMismatch2, VMismatchEmpty, VMismatchNoList, VMismatchBadEntry,
   VOtherStatus, VNoStatus, VNotJson, VString}
EvalOutcomes == [load : {"ok", "fails"}, model : VerdictResponses \cup {Raises}]

\* An entry of ground_truth/: its number, and whether its name ends in .json.
GTEntries == [base : 1..MaxGT, json : BOOLEAN]

InitEvaluator ==
  /\ ground_truth \in SUBSET GTEntries
  /\ \A a, b \in ground_truth : a.base = b.base => a = b
  /\ out_present \in SUBSET (1..MaxGT)
  /\ order = sorted(ground_truth)
  /\ ei = 1 /\ epc = "loop" /\ results = << >> /\ model_calls = {}
  /\ last = NoFile /\ report = << >>
  /\ JsonIdle /\ ExtractorIdle

\* os.path.exists(out_path), with out_path the same file name in gemini_output/
OutputExistsAlways(base) == TRUE
OutputExists(base) == base \in out_present

\* if not file.endswith(".json"): continue
SkipNotJson ==
  /\ epc = "loop" /\ ei <= Len(order) /\ ~order[ei].json
  /\ ei' = ei + 1
  /\ UNCHANGED <<ground_truth, out_present, order, epc, results, model_calls,
                 last, report, jvars, xvars>>

\* One pass of the loop body for a .json entry, lines 81-133.
EvaluateFile ==
  /\ epc = "loop" /\ ei <= Len(order) /\ order[ei].json
  /\ LET base == order[ei].base
     IN IF ~OutputExists(base)
          THEN /\ results' = Append(results, MissingRow(base))
               /\ last' = [base |-> base, how |-> "missing", text |-> << >>]
               /\ ei' = ei + 1
               /\ UNCHANGED <<epc, model_calls>>
          ELSE \E o \in EvalOutcomes :
                 IF o.load = "fails"
                   THEN /\ epc' = "raised"     \* json.load is outside the try
                        /\ UNCHANGED <<ei, results, model_calls, last>>
                 ELSE /\ model_calls' = model_calls \cup {base}
                      /\ ei' = ei + 1
                      /\ UNCHANGED epc
                      /\ IF o.model = Raises
                           THEN /\ results' = Append(results, ApiErrorRow(base))
                                /\ last' = [base |-> base, how |-> "raised",
                                            text |-> << >>]
                           ELSE /\ results' = results \o VerdictRows(base, o.model)
                                /\ last' = [base |-> base, how |-> "answered",
                                            text |-> o.model]
  /\ UNCHANGED <<ground_truth, out_present, order, report, jvars, xvars>>

\* df = pd.DataFrame(results, ...); df.to_excel(...)
ExportResults ==
  /\ epc = "loop" /\ ei > Len(order)
  /\ report' = results /\ epc' = "done"
  /\ UNCHANGED <<ground_truth, out_present, order, ei, results, model_calls,
                 last, jvars, xvars>>

NextEvaluator == SkipNotJson \/ EvaluateFile \/ ExportResults
SpecEvaluator == InitEvaluator /\ [][NextEvaluator]_vars

\* ---------------------------------------------------------------- extraction
Finished == xpc \in {"done", "raised"}
InputFiles == {listing[i] : i \in 1..Len(listing)} \ {NotAFolder}
HasOutput(f) == JsonName(f) \in DOMAIN gemini_output
InError(f) == f \notin sorted_invoices /\ FileName(f) \in error_invoices

\* C1: once run_extractor has finished, every input file has exactly one
\* disposition: its <base>.json is in the output collection, or the file was
\* moved to the error collection, not both and not neither.
C1_ExactlyOneDisposition ==
  Finished => \A f \in InputFiles : HasOutput(f) # InError(f)

\* C2: a failure on one file never keeps the others from being processed:
\* once run_extractor has finished, every sorted_descending file was handed to
\* extract_invoice and has a disposition.
C2_FailureIsIsolated ==
  Finished => \A f \in InputFiles : f \in handed /\ (HasOutput(f) \/ InError(f))

\* C10: a file whose response yields a JSON object, the empty object
\* included, is Extracted: the object is written under the base name and the
\* file is not moved to the error collection.
C10_ObjectRecoveredIsExtracted ==
  (xpc # "raised" /\ xi > 1 /\ listing[xi - 1] # NotAFolder
     /\ json_data.kind = "dict")
  => LET f == listing[xi - 1]
     IN /\ HasOutput(f) /\ gemini_output[JsonName(f)] = json_data.val
        /\ f \in sorted_invoices

\* ------------------------------------------------------------- extract_json
text == lead \o body \o trail
Braceless(t) == \A i \in 1..Len(t) : t[i] \notin {LB, RB}
FirstOpen == Min({i \in 1..Len(text) : text[i] = LB})
LastClose == Max({i \in 1..Len(text) : text[i] = RB})

\* C3: for a valid JSON object text, fenced or surrounded by prose without
\* braces, extract_json returns the object that parsing the text alone gives;
\* the candidate region runs from the first '{' to the last '}' of the text.
C3_WrappedObjectIsRecovered ==
  jpc = "returned" =>
    /\ (json_loads(body).kind = "dict" /\ Braceless(lead) /\ Braceless(trail))
         => jret.ret = json_loads(body)
    /\ jret.group # NoMatch => jret.group = SubSeq(text, FirstOpen, LastClose)
C3_Witness ==
  /\ jpc = "returned" /\ lead = <<FENCE, JSONTAG, WS>> /\ trail = <<WS, FENCE>>
  /\ body = <<LB, NKEY, LB, RB, RB>>
  /\ jret.ret.kind = "dict" /\ "invoice" \in DOMAIN jret.ret.val

\* C4: the value extract_json returns tells the two failures apart: what it
\* returns for a '{...}' span that does not parse differs from what it returns
\* for a text without a '{...}' span.
C4_FailureKindsDistinct ==
  (jpc = "returned" /\ jret.group # NoMatch
     /\ json_loads(jret.group).kind = "JSONDecodeError")
  => jret.ret # extract_json(NoBraces).ret

\* ---------------------------------------------------------------- comparison
RowsOf(rows, base) == SelectSeq(rows, LAMBDA r : r.invoice = base)
Answered == last.how = "answered"
Verdict == json_loads(cleaned_text(last.text))
VerdictStatus == Get(Verdict.val, "overall_status", Absent)
VerdictMismatches == Get(Verdict.val, "mismatches", << >>)
EntryRow(base, e) ==
  Row(base, "Mismatch", EntryGet(e, "field"), <<EntryGet(e, "expected")>>,
      EntryGet(e, "actual"))

\* C5: a response from which extract_json recovers a JSON object is not
\* reported as an invalid JSON verdict: the evaluator recovers the same
\* object.
C5_VerdictUsesTolerantRecovery ==
  (Answered /\ extract_json(last.text).ret.kind = "dict")
  => /\ Verdict = extract_json(last.text).ret
     /\ \A i \in 1..Len(results) :
          results[i].invoice = last.base => results[i].field # "Invalid JSON Verdict"

\* C6 as stated: a Mismatch verdict with N >= 1 entries gives exactly N
\* Mismatch rows, one per entry in list order; a Pass verdict gives exactly
\* one row with "-" in Field, Expected and Actual.
C6_AsStated ==
  (Answered /\ Verdict.kind = "dict") =>
    /\ (VerdictStatus = "Mismatch" /\ VerdictMismatches # << >>)
         => RowsOf(results, last.base)
              = [i \in 1..Len(VerdictMismatches) |->
                   EntryRow(last.base, VerdictMismatches[i])]
    /\ VerdictStatus = "Pass"
         => RowsOf(results, last.base)
              = << [invoice |-> last.base, status |-> "Pass", field |-> "-",
                    expected |-> <<"-">>, actual |-> "-"] >>

\* C6 as amended: the same, for a Mismatch verdict all of whose entries are
\* JSON objects.
C6_RowPerObjectEntry ==
  (Answered /\ Verdict.kind = "dict") =>
    /\ (VerdictStatus = "Mismatch" /\ VerdictMismatches # << >>
          /\ \A i \in 1..Len(VerdictMismatches) : VerdictMismatches[i].isobj)
         => RowsOf(results, last.base)
              = [i \in 1..Len(VerdictMismatches) |->
                   EntryRow(last.base, VerdictMismatches[i])]
    /\ VerdictStatus = "Pass"
         => RowsOf(results, last.base)
              = << [invoice |-> last.base, status |-> "Pass", field |-> "-",
                    expected |-> <<"-">>, actual |-> "-"] >>
C6_Witness ==
  /\ Answered /\ last.text = VMismatch2
  /\ Len(RowsOf(results, last.base)) = 2
  /\ RowsOf(results, last.base)[2].field = "due_date"
  /\ Len(results) > 2

\* The position of an invoice in the sorted listing.
Processed == {order[i] : i \in 1..(ei - 1)}

\* C7: a ground-truth .json file without an extracted output gets exactly the
\* row [base, "Missing Output", "-", "-", "-"] and no model call; no
\* exception is raised at such a file, and the loop goes on past it.
C7_MissingOutput ==
  /\ \A e \in Processed :
       (e.json /\ e.base \notin out_present)
       => /\ RowsOf(results, e.base) = <<MissingRow(e.base)>>
          /\ MissingRow(e.base)
               = [invoice |-> e.base, status |-> "Missing Output", field |-> "-",
                  expected |-> <<"-">>, actual |-> "-"]
          /\ e.base \notin model_calls
  /\ epc = "raised" => order[ei].json /\ order[ei].base \in out_present
  /\ epc = "done" => Processed = ground_truth
C7_Witness ==
  /\ epc = "done" /\ Len(report) >= 2
  /\ report[1].status = "Missing Output" /\ report[1].invoice \notin model_calls
  /\ report[2].invoice # report[1].invoice /\ report[2].status = "Pass"

\* C8: a Mismatch verdict with an empty or absent mismatches list gives
\* exactly one row, of status Mismatch, with the no-detail placeholder; and a
\* Pass row is only written for a verdict whose overall_status is "Pass".
C8_DegradedMismatchIsFlagged ==
  /\ (Answered /\ Verdict.kind = "dict" /\ VerdictStatus = "Mismatch"
        /\ VerdictMismatches = << >>)
      => /\ Len(RowsOf(results, last.base)) = 1
         /\ RowsOf(results, last.base)[1].status = "Mismatch"
         /\ RowsOf(results, last.base)[1].expected = <<NoDetail>>
  /\ \A i \in 1..Len(results) :
       (results[i].invoice = last.base /\ results[i].status = "Pass")
       => Answered /\ Verdict.kind = "dict" /\ VerdictStatus = "Pass"
C8_Witness ==
  /\ Answered /\ last.text = VMismatchNoList
  /\ RowsOf(results, last.base) = <<NoDetailRow(last.base)>>

\* C9: the final report is, in the order of the sorted ground-truth names,
\* one non-empty block of rows per ground-truth .json file: no such file is
\* without a row and no row is out of order.
C9_ReportInFileOrder ==
  epc = "done" =>
    /\ report = results
    /\ \A i, j \in 1..Len(report) : i < j => report[i].invoice <= report[j].invoice
    /\ {report[i].invoice : i \in 1..Len(report)}
         = {e.base : e \in {g \in ground_truth : g.json}}
C9_Witness ==
  /\ epc = "done" /\ Len(report) >= 3
  /\ report[1].field = "Invalid JSON Verdict"
  /\ report[2].field = "API or other Error" /\ report[2].invoice > report[1].invoice
  /\ report[3].status = "Mismatch" /\ report[3].invoice > report[2].invoice

====
